---- MODULE Spec2Model ----
(***************************************************************************)
(* Model of the pagerando registry of the bionic linker:                   *)
(*   linker/rando_map.cpp       the treap of diversified intervals and its *)
(*                              bump / free-list node allocator            *)
(*   linker/linker_pagerando.cpp  get_random_address (rejection sampling)  *)
(*                                                                         *)
(* Addresses of registry memory are counted in machine words: a            *)
(* RandoMapHeader is two words, a RandoMapNode nine (eight pointer-sized   *)
(* fields and the 32-bit prio, padded to a word).  The null pointer is 0.  *)
(***************************************************************************)
EXTENDS Integers, Sequences, FiniteSets, TLC

\* ---------------------------------------------------------------- bounds
MaxPages == 2        \* mappings mmap grants before it returns MAP_FAILED
PageWords == 30      \* PAGE_SIZE in words (scaled down)
MaxAddr == 2         \* div_start is drawn from 0..MaxAddr
MaxSize == 2         \* div_size is drawn from 0..MaxSize
MaxPrio == 1         \* arc4random_uniform draws prio from 0..MaxPrio
MaxOps == 7          \* calls made to the registry in one run
MaxMeta == 1         \* distinct metadata tuples passed to rando_map_add
MaxContent == 3      \* characters in the name-index file
MaxName == 2         \* characters in a soname
AddrBits == 4        \* width W of ElfW(Addr) (scaled down)

\* ------------------------------------------------------ program constants
kMapVersion == 1
HeaderWords == 2
NodeWords == 9
NULL == 0

DivStarts == 0..MaxAddr
DivSizes == 0..MaxSize
Prios == 0..MaxPrio
\* (undiv_start, undiv_vaddr, num_funcs, funcs) as passed to rando_map_add
Metas == { << 10 * m + 1, 10 * m + 2, m, 10 * m + 3 >> : m \in 1..MaxMeta }

VARIABLES
  mem,               \* node storage written so far: address -> RandoMapNode
  root,              \* rando_map_header->root
  version,           \* rando_map_header->version
  rando_map_header,  \* address of the header, NULL before rando_map_init
  free_list,         \* head of the free list
  current_page,      \* [next, limit]
  pages,             \* number of pages mapped so far
  status,            \* "ok", or how the process ended
  last,              \* history: the operation that led to this state
  run,               \* history: lengths of the last add/delete/add blocks
  nops,              \* history: number of calls made so far
  sampler,           \* get_random_address: [pc, low, high, raw, addr, rejected]
  hist,              \* history: [carved, headers], the slots and headers handed out
  pot                \* g_pot_map and the name-index file it reads

vars == << mem, root, version, rando_map_header, free_list, current_page,
           pages, status, last, run, nops, sampler, hist, pot >>

\* A zero-filled RandoMapNode (memset(.., 0, ..)).
ZeroNode ==
  [ div_start |-> 0, div_end |-> 0, undiv_start |-> 0, undiv_vaddr |-> 0,
    num_funcs |-> 0, funcs |-> 0, left |-> NULL, right |-> NULL, prio |-> 0 ]

\* The program state as one value, for the operators below.
State ==
  [ mem |-> mem, root |-> root, version |-> version,
    rando_map_header |-> rando_map_header, free_list |-> free_list,
    current_page |-> current_page, pages |-> pages, status |-> status ]

\* Reading a node slot of a mapped page: pages are zero-filled when mapped
\* and never unmapped, so a slot never written reads as zero.
ReadNode(s, a) == IF a \in DOMAIN s.mem THEN s.mem[a] ELSE ZeroNode

WriteNode(s, a, n) ==
  [ s EXCEPT !.mem = [ x \in (DOMAIN s.mem) \cup {a} |->
                         IF x = a THEN n ELSE s.mem[x] ] ]

\* A RandoMapNode** is <<0, "root">> (&rando_map_header->root) or
\* <<node, "left">> / <<node, "right">>.
RootPtr == << NULL, "root" >>
Deref(s, ptr) == IF ptr[2] = "root" THEN s.root ELSE s.mem[ptr[1]][ptr[2]]
Store(s, ptr, v) ==
  IF ptr[2] = "root" THEN [ s EXCEPT !.root = v ]
  ELSE [ s EXCEPT !.mem[ptr[1]][ptr[2]] = v ]

\* alloc_map_page: mmap of one zero-filled page; the process ends when mmap
\* fails.  The k-th mapping is placed at k * PageWords.
MapStart(s) == (s.pages + 1) * PageWords

alloc_map_page(s) ==
  IF s.pages >= MaxPages
  THEN [ s EXCEPT !.status = "fatal_mmap" ]
  ELSE [ s EXCEPT !.pages = @ + 1,
                  !.current_page = [ next  |-> MapStart(s),
                                     limit |-> MapStart(s) + PageWords - NodeWords ] ]

\* mutant: current_page.next is not moved past the header
rando_map_init_nohdr(s) ==
  LET p == alloc_map_page(s) IN
  IF p.status # "ok" THEN p
  ELSE [ p EXCEPT !.rando_map_header = MapStart(s),
                  !.version = kMapVersion,
                  !.root = NULL ]

rando_map_init(s) ==
  LET p == alloc_map_page(s) IN
  IF p.status # "ok" THEN p
  ELSE [ p EXCEPT !.rando_map_header = MapStart(s),
                  !.version = kMapVersion,
                  !.root = NULL,
                  !.current_page.next = MapStart(s) + HeaderWords ]

\* alloc_node: [s, res, src, mapped]
alloc_node(s) ==
  IF s.free_list # NULL
  THEN [ s |-> [ s EXCEPT !.free_list = s.mem[s.free_list].right ],
         res |-> s.free_list, src |-> "free", mapped |-> FALSE ]
  ELSE LET over == s.current_page.next > s.current_page.limit
           p == IF over THEN alloc_map_page(s) ELSE s
       IN [ s |-> IF p.status # "ok" THEN p
                  ELSE [ p EXCEPT !.current_page.next = @ + NodeWords ],
            res |-> p.current_page.next, src |-> "page", mapped |-> over ]

\* mutant: the rotation is skipped
rotate_left_son_skip(s, ptr) ==
  [ s |-> s, son |-> s.mem[Deref(s, ptr)].left ]

rotate_left_son(s, ptr) ==
  LET curr == Deref(s, ptr)
      son == s.mem[curr].left
      gson == s.mem[son].right
      s1 == [ s EXCEPT !.mem[son].right = curr ]
      s2 == [ s1 EXCEPT !.mem[curr].left = gson ]
  IN [ s |-> Store(s2, ptr, son), son |-> son ]

\* mutant: the rotation also hands the prio of curr to the son
rotate_right_son_prio(s, ptr) ==
  LET curr == Deref(s, ptr)
      son == s.mem[curr].right
      gson == s.mem[son].left
      s1 == [ s EXCEPT !.mem[son].left = curr, !.mem[son].prio = s.mem[curr].prio ]
      s2 == [ s1 EXCEPT !.mem[curr].right = gson ]
  IN [ s |-> Store(s2, ptr, son), son |-> son ]

rotate_right_son(s, ptr) ==
  LET curr == Deref(s, ptr)
      son == s.mem[curr].right
      gson == s.mem[son].left
      s1 == [ s EXCEPT !.mem[son].left = curr ]
      s2 == [ s1 EXCEPT !.mem[curr].right = gson ]
  IN [ s |-> Store(s2, ptr, son), son |-> son ]

RECURSIVE map_tree_insert_node(_, _, _)
map_tree_insert_node(s, node, ptr) ==
  LET curr == Deref(s, ptr) IN
  IF curr = NULL THEN Store(s, ptr, node)
  ELSE IF s.mem[node].div_start < s.mem[curr].div_start THEN
    LET r == map_tree_insert_node(s, node, << curr, "left" >>) IN
    IF r.status # "ok" THEN r
    ELSE IF r.mem[r.mem[curr].left].prio > r.mem[curr].prio
         THEN rotate_left_son(r, ptr).s ELSE r
  ELSE IF s.mem[node].div_start >= s.mem[curr].div_end THEN
    LET r == map_tree_insert_node(s, node, << curr, "right" >>) IN
    IF r.status # "ok" THEN r
    ELSE IF r.mem[r.mem[curr].right].prio > r.mem[curr].prio
         THEN rotate_right_son(r, ptr).s ELSE r
  ELSE [ s EXCEPT !.status = "fatal_overlap" ]

\* map_tree_delete_node: [s, res]
RECURSIVE map_tree_delete_node(_, _, _)
map_tree_delete_node(s, div_start, ptr) ==
  LET curr == Deref(s, ptr) IN
  IF curr = NULL
  THEN [ s |-> [ s EXCEPT !.status = "fatal_delete" ], res |-> NULL ]
  ELSE IF div_start < s.mem[curr].div_start
  THEN map_tree_delete_node(s, div_start, << curr, "left" >>)
  ELSE IF div_start >= s.mem[curr].div_end
  THEN map_tree_delete_node(s, div_start, << curr, "right" >>)
  ELSE
    LET z == [ s EXCEPT !.mem[curr].prio = 0 ] IN
    IF z.mem[curr].left = NULL
    THEN [ s |-> Store(z, ptr, z.mem[curr].right), res |-> curr ]
    ELSE IF z.mem[curr].right = NULL
    THEN [ s |-> Store(z, ptr, z.mem[curr].left), res |-> curr ]
    ELSE IF z.mem[z.mem[curr].left].prio > z.mem[z.mem[curr].right].prio
    THEN LET t == rotate_left_son(z, ptr) IN
         map_tree_delete_node(t.s, div_start, << t.son, "right" >>)
    ELSE LET t == rotate_right_son(z, ptr) IN
         map_tree_delete_node(t.s, div_start, << t.son, "left" >>)

\* mutant: rando_map_add maps the header itself when there is none
rando_map_add_lazy(s, div_start, div_size, meta, prio) ==
  LET s0 == IF s.rando_map_header = NULL THEN rando_map_init(s) ELSE s
      a == alloc_node(s0)
      node == a.res
      s1 == [ a.s EXCEPT !.current_page.next = @ + NodeWords ]
      s2 == WriteNode(s1, node,
              [ div_start |-> div_start, div_end |-> div_start + div_size,
                undiv_start |-> meta[1], undiv_vaddr |-> meta[2],
                num_funcs |-> meta[3], funcs |-> meta[4],
                left |-> NULL, right |-> NULL, prio |-> prio ])
  IN IF a.s.status # "ok" THEN a.s
     ELSE map_tree_insert_node(s2, node, RootPtr)

\* rando_map_add.  Writing through a null node pointer, or reading the root
\* through a null header, ends the process with SIGSEGV (page 0 is unmapped).
rando_map_add(s, div_start, div_size, meta, prio) ==
  LET a == alloc_node(s)
      node == a.res
      s1 == [ a.s EXCEPT !.current_page.next = @ + NodeWords ]
      s2 == WriteNode(s1, node,
              [ div_start |-> div_start, div_end |-> div_start + div_size,
                undiv_start |-> meta[1], undiv_vaddr |-> meta[2],
                num_funcs |-> meta[3], funcs |-> meta[4],
                left |-> NULL, right |-> NULL, prio |-> prio ])
  IN IF a.s.status # "ok" THEN a.s
     ELSE IF node = NULL \/ s.rando_map_header = NULL
     THEN [ s1 EXCEPT !.status = "segv" ]
     ELSE map_tree_insert_node(s2, node, RootPtr)

\* mutant: the node taken out of the tree is not put on the free list
rando_map_delete_leak(s, div_start) ==
  IF s.rando_map_header = NULL THEN [ s EXCEPT !.status = "segv" ]
  ELSE LET d == map_tree_delete_node(s, div_start, RootPtr) IN
       IF d.s.status # "ok" THEN d.s
       ELSE [ d.s EXCEPT !.mem[d.res] = ZeroNode ]

\* mutant: deleting an address no node holds returns without a fatal error
rando_map_delete_silent(s, div_start) ==
  IF s.rando_map_header = NULL THEN [ s EXCEPT !.status = "segv" ]
  ELSE LET d == map_tree_delete_node(s, div_start, RootPtr) IN
       IF d.s.status # "ok" THEN s
       ELSE LET z == [ d.s EXCEPT !.mem[d.res] = ZeroNode ] IN
            [ z EXCEPT !.mem[d.res].right = z.free_list,
                       !.free_list = d.res ]

\* mutant: the node is put on the free list without the memset
rando_map_delete_nomemset(s, div_start) ==
  IF s.rando_map_header = NULL THEN [ s EXCEPT !.status = "segv" ]
  ELSE LET d == map_tree_delete_node(s, div_start, RootPtr) IN
       IF d.s.status # "ok" THEN d.s
       ELSE [ d.s EXCEPT !.mem[d.res].right = d.s.free_list,
                         !.free_list = d.res ]

\* mutant: the freed node is not linked to the old head of the free list
rando_map_delete_drop(s, div_start) ==
  IF s.rando_map_header = NULL THEN [ s EXCEPT !.status = "segv" ]
  ELSE LET d == map_tree_delete_node(s, div_start, RootPtr) IN
       IF d.s.status # "ok" THEN d.s
       ELSE LET z == [ d.s EXCEPT !.mem[d.res] = ZeroNode ] IN
            [ z EXCEPT !.free_list = d.res ]

rando_map_delete(s, div_start) ==
  IF s.rando_map_header = NULL THEN [ s EXCEPT !.status = "segv" ]
  ELSE LET d == map_tree_delete_node(s, div_start, RootPtr) IN
       IF d.s.status # "ok" THEN d.s
       ELSE LET z == [ d.s EXCEPT !.mem[d.res] = ZeroNode ] IN
            [ z EXCEPT !.mem[d.res].right = z.free_list,
                       !.free_list = d.res ]


\* ----------------------------------------------------- get_random_address
\* ElfW(Addr) arithmetic is unsigned, modulo 2^AddrBits.
AddrSpace == 2 ^ AddrBits
RawValues == 0..(AddrSpace - 1)

\* range = RAND_ADDR_HIGH - RAND_ADDR_LOW
Range(low, high) == (high - low) % AddrSpace

\* mutant: no draw is rejected
MinAcceptable_none(range) == range % range

\* mutant: the complement ~range in place of the negation -range
MinAcceptable_complement(range) == ((AddrSpace - 1 - range) % AddrSpace) % range

\* min = -range % range
MinAcceptable(range) == ((AddrSpace - range) % AddrSpace) % range

\* mutant: the draw is not reduced modulo range
MapToWindow_noreduce(raw, low, high) == (raw + low) % AddrSpace

\* random_start_address % range + RAND_ADDR_LOW
MapToWindow(raw, low, high) ==
  ((raw % Range(low, high)) + low) % AddrSpace

\* The windows RAND_ADDR_LOW < RAND_ADDR_HIGH an architecture may define.
Windows == { w \in RawValues \X RawValues : w[1] < w[2] }

SamplerIdle == [ pc |-> "idle", low |-> 0, high |-> 0, raw |-> 0, addr |-> 0,
                 rejected |-> FALSE ]

\* ------------------------------------------------------------ POTIndexMap
\* std::string values are sequences of characters; "nl" is '\n'.
Letters == { "a", "b" }
Chars == Letters \cup { "nl" }
Strings(alphabet, n) == UNION { [ 1..k -> alphabet ] : k \in 0..n }
Contents == Strings(Chars, MaxContent)
Sonames == Strings(Letters, MaxName)

\* kPOTIndexError (linker_pagerando.h): no valid index
kPOTIndexError == -1
\* std::string::npos
npos == -1

\* content.find('\n', pos), positions counted from 0
RECURSIVE Find(_, _)
Find(content, pos) ==
  IF pos >= Len(content) THEN npos
  ELSE IF content[pos + 1] = "nl" THEN pos
  ELSE Find(content, pos + 1)

\* content.substr(pos) and content.substr(pos, count)
Substr(content, pos, count) == SubSeq(content, pos + 1, pos + count)

\* pot_indices_[line] = index
Assign(map, line, index) ==
  [ x \in (DOMAIN map) \cup { line } |-> IF x = line THEN index ELSE map[x] ]

\* The do/while loop of read_pot_map from position pos and line number index.
RECURSIVE ReadLoop(_, _, _, _)

\* mutant: ++index is left out
ReadLoop_sameindex(content, pos, index, map) ==
  LET next_newline == Find(content, pos)
      line == IF next_newline = npos
              THEN Substr(content, pos, Len(content) - pos)
              ELSE Substr(content, pos, next_newline - pos)
      assigned == Assign(map, line, index)
  IN IF next_newline # npos
     THEN ReadLoop(content, next_newline + 1, index, assigned)
     ELSE assigned

ReadLoop(content, pos, index, map) ==
  LET next_newline == Find(content, pos)
      line == IF next_newline = npos
              THEN Substr(content, pos, Len(content) - pos)
              ELSE Substr(content, pos, next_newline - pos)
      assigned == Assign(map, line, index)
  IN IF next_newline # npos
     THEN ReadLoop(content, next_newline + 1, index + 1, assigned)
     ELSE assigned

\* read_pot_map on a file that ReadFileToString could read
read_pot_map(p) ==
  [ p EXCEPT !.pot_indices_ = ReadLoop(p.content, 0, 0, p.pot_indices_) ]

\* POTIndexMap::get_pot_index; readable: whether ReadFileToString succeeds
get_pot_index(p, soname, readable) ==
  LET q == IF p.initialized_ THEN p
           ELSE IF readable THEN [ read_pot_map(p) EXCEPT !.initialized_ = TRUE ]
           ELSE p
      failed == ~ p.initialized_ /\ ~ readable
  IN [ q EXCEPT !.soname = soname, !.readfail = failed, !.called = TRUE,
                !.result = IF failed THEN kPOTIndexError
                           ELSE IF soname \in DOMAIN q.pot_indices_
                           THEN q.pot_indices_[soname]
                           ELSE kPOTIndexError ]

PotIdle == [ content |-> << >>, initialized_ |-> FALSE, pot_indices_ |-> << >>,
             soname |-> << >>, readfail |-> FALSE, called |-> FALSE,
             result |-> 0 ]

\* The page the most recent alloc_map_page mapped.
PageOf(s) == s.pages * PageWords

\* The states map_tree_delete_node passes through, one after each rotation.
RECURSIVE DeleteSteps(_, _, _)

\* mutant: the son of lower priority is rotated up
DeleteSteps_lower(s, div_start, ptr) ==
  LET curr == Deref(s, ptr) IN
  IF curr = NULL THEN << >>
  ELSE IF div_start < s.mem[curr].div_start
  THEN DeleteSteps(s, div_start, << curr, "left" >>)
  ELSE IF div_start >= s.mem[curr].div_end
  THEN DeleteSteps(s, div_start, << curr, "right" >>)
  ELSE
    LET z == [ s EXCEPT !.mem[curr].prio = 0 ] IN
    IF z.mem[curr].left = NULL \/ z.mem[curr].right = NULL THEN << >>
    ELSE IF z.mem[z.mem[curr].left].prio < z.mem[z.mem[curr].right].prio
    THEN LET t == rotate_left_son(z, ptr) IN
         << [ s |-> t.s, node |-> curr ] >>
           \o DeleteSteps(t.s, div_start, << t.son, "right" >>)
    ELSE LET t == rotate_right_son(z, ptr) IN
         << [ s |-> t.s, node |-> curr ] >>
           \o DeleteSteps(t.s, div_start, << t.son, "left" >>)

DeleteSteps(s, div_start, ptr) ==
  LET curr == Deref(s, ptr) IN
  IF curr = NULL THEN << >>
  ELSE IF div_start < s.mem[curr].div_start
  THEN DeleteSteps(s, div_start, << curr, "left" >>)
  ELSE IF div_start >= s.mem[curr].div_end
  THEN DeleteSteps(s, div_start, << curr, "right" >>)
  ELSE
    LET z == [ s EXCEPT !.mem[curr].prio = 0 ] IN
    IF z.mem[curr].left = NULL \/ z.mem[curr].right = NULL THEN << >>
    ELSE IF z.mem[z.mem[curr].left].prio > z.mem[z.mem[curr].right].prio
    THEN LET t == rotate_left_son(z, ptr) IN
         << [ s |-> t.s, node |-> curr ] >>
           \o DeleteSteps(t.s, div_start, << t.son, "right" >>)
    ELSE LET t == rotate_right_son(z, ptr) IN
         << [ s |-> t.s, node |-> curr ] >>
           \o DeleteSteps(t.s, div_start, << t.son, "left" >>)

\* ------------------------------------------------------------ the machine
DelAddrs == 0..(MaxAddr + MaxSize)

NoOp == [ op |-> "none", arg |-> 0, node |-> NULL, src |-> "none",
          mapped |-> FALSE, lo |-> 0, hi |-> 0, meta |-> << >>, rot |-> 0 ]
NoHist == [ carved |-> {}, headers |-> {} ]
NoRun == [ a |-> 0, d |-> 0, k |-> 0, bad |-> 0, pg |-> 0 ]

RegistryInit ==
  /\ mem = << >>
  /\ root = NULL
  /\ version = 0
  /\ rando_map_header = NULL
  /\ free_list = NULL
  /\ current_page = [ next |-> NULL, limit |-> NULL ]
  /\ pages = 0
  /\ status = "ok"
  /\ last = NoOp
  /\ run = NoRun
  /\ nops = 0
  /\ hist = NoHist

Init ==
  /\ RegistryInit
  /\ sampler = SamplerIdle
  /\ pot = PotIdle

SetState(r) ==
  /\ mem' = r.mem
  /\ root' = r.root
  /\ version' = r.version
  /\ rando_map_header' = r.rando_map_header
  /\ free_list' = r.free_list
  /\ current_page' = r.current_page
  /\ pages' = r.pages
  /\ status' = r.status
  /\ nops' = nops + 1
  /\ sampler' = sampler
  /\ pot' = pot

\* History of the blocks of operations: a adds, then d deletes, then k adds;
\* bad is the position in the last block of the first add that did not take
\* its node from the free list or that mapped a page (0: none); pg is the
\* number of pages mapped when the block of deletes ended.
RunAfterAdd(al) ==
  IF run.d = 0 THEN [ run EXCEPT !.a = @ + 1 ]
  ELSE [ run EXCEPT !.k = @ + 1,
                    !.bad = IF @ = 0 /\ (al.src # "free" \/ al.mapped)
                            THEN run.k + 1 ELSE @ ]

RunAfterDelete ==
  IF run.k = 0 THEN [ run EXCEPT !.d = @ + 1, !.pg = pages ]
  ELSE [ a |-> run.k, d |-> 1, k |-> 0, bad |-> 0, pg |-> pages ]

RandoMapInit ==
  /\ status = "ok"
  /\ nops < MaxOps
  /\ SetState(rando_map_init(State))
  /\ last' = [ NoOp EXCEPT !.op = "init" ]
  /\ run' = NoRun
  /\ hist' = IF rando_map_init(State).status = "ok"
             THEN [ hist EXCEPT !.headers = @ \cup { MapStart(State) } ]
             ELSE hist

RandoMapAdd ==
  /\ status = "ok"
  /\ nops < MaxOps
  /\ \E div_start \in DivStarts, div_size \in DivSizes, meta \in Metas, prio \in Prios :
       LET al == alloc_node(State) IN
       /\ SetState(rando_map_add(State, div_start, div_size, meta, prio))
       /\ last' = [ op |-> "add", arg |-> div_start, node |-> al.res,
                    src |-> al.src, mapped |-> al.mapped,
                    lo |-> div_start, hi |-> div_start + div_size,
                    meta |-> meta, rot |-> 0 ]
       /\ run' = RunAfterAdd(al)
       /\ hist' = IF al.src = "page" /\ al.s.status = "ok" /\ al.res # NULL
                  THEN [ hist EXCEPT !.carved = @ \cup
                           { [ slot |-> al.res, page |-> PageOf(al.s) ] } ]
                  ELSE hist

RandoMapDelete ==
  /\ status = "ok"
  /\ nops < MaxOps
  /\ \E div_start \in DelAddrs :
       LET d == IF rando_map_header = NULL THEN [ res |-> NULL ]
                ELSE map_tree_delete_node(State, div_start, RootPtr) IN
       /\ SetState(rando_map_delete(State, div_start))
       /\ last' = [ op |-> "delete", arg |-> div_start, node |-> d.res,
                    src |-> "none", mapped |-> FALSE,
                    lo |-> IF d.res = NULL THEN 0 ELSE mem[d.res].div_start,
                    hi |-> IF d.res = NULL THEN 0 ELSE mem[d.res].div_end,
                    meta |-> << >>,
                    rot |-> IF rando_map_header = NULL THEN 0
                            ELSE Len(DeleteSteps(State, div_start, RootPtr)) ]
       /\ run' = RunAfterDelete
       /\ hist' = hist

Next == RandoMapInit \/ RandoMapAdd \/ RandoMapDelete

Spec == Init /\ [][Next]_vars

\* get_random_address as a process: the do/while loop draws with
\* arc4random_buf, tests the draw against min, and maps the accepted draw.
RegistryUnchanged ==
  UNCHANGED << mem, root, version, rando_map_header, free_list, current_page,
               pages, status, last, run, nops, hist >>

SamplerInit ==
  /\ RegistryInit
  /\ pot = PotIdle
  /\ \E w \in Windows :
       sampler = [ SamplerIdle EXCEPT !.pc = "draw", !.low = w[1], !.high = w[2] ]

SamplerDraw ==
  /\ sampler.pc = "draw"
  /\ \E r \in RawValues : sampler' = [ sampler EXCEPT !.pc = "test", !.raw = r ]
  /\ RegistryUnchanged
  /\ pot' = pot

SamplerReject ==
  /\ sampler.pc = "test"
  /\ sampler.raw < MinAcceptable(Range(sampler.low, sampler.high))
  /\ sampler' = [ sampler EXCEPT !.pc = "draw", !.rejected = TRUE ]
  /\ RegistryUnchanged
  /\ pot' = pot

SamplerAccept ==
  /\ sampler.pc = "test"
  /\ ~ (sampler.raw < MinAcceptable(Range(sampler.low, sampler.high)))
  /\ sampler' = [ sampler EXCEPT
                    !.pc = "done",
                    !.addr = MapToWindow(sampler.raw, sampler.low, sampler.high) ]
  /\ RegistryUnchanged
  /\ pot' = pot

SamplerNext == SamplerDraw \/ SamplerReject \/ SamplerAccept

SamplerSpec == SamplerInit /\ [][SamplerNext]_vars

\* get_pot_index as a process: the file holds some content; each call names
\* a soname and, when it reads the file, succeeds or fails in reading it.
PotInit ==
  /\ RegistryInit
  /\ sampler = SamplerIdle
  /\ \E c \in Contents : pot = [ PotIdle EXCEPT !.content = c ]

PotGetIndex ==
  /\ \E soname \in Sonames, readable \in BOOLEAN :
       pot' = get_pot_index(pot, soname, readable)
  /\ RegistryUnchanged
  /\ sampler' = sampler

PotNext == PotGetIndex

PotSpec == PotInit /\ [][PotNext]_vars

\* ------------------------------------------------------------ the claims
\* The nodes linked in the tree below n.
RECURSIVE Reach(_, _)
Reach(m, n) ==
  IF n = NULL THEN {} ELSE {n} \cup Reach(m, m[n].left) \cup Reach(m, m[n].right)

Live == Reach(mem, root)

\* The lookup the claims speak of: the descent of map_tree_delete_node from
\* the root, returning the node whose interval holds addr, or NULL.
RECURSIVE LookupFrom(_, _)
LookupFrom(addr, curr) ==
  IF curr = NULL THEN NULL
  ELSE IF addr < mem[curr].div_start THEN LookupFrom(addr, mem[curr].left)
  ELSE IF addr >= mem[curr].div_end THEN LookupFrom(addr, mem[curr].right)
  ELSE curr

Lookup(addr) == LookupFrom(addr, root)

MetaOf(n) ==
  << mem[n].undiv_start, mem[n].undiv_vaddr, mem[n].num_funcs, mem[n].funcs >>

Intersect(m, n) ==
  \E x \in 0..(MaxAddr + MaxSize) :
    /\ mem[m].div_start <= x /\ x < mem[m].div_end
    /\ mem[n].div_start <= x /\ x < mem[n].div_end

\* C1: while the process runs, no two nodes linked in the tree have
\* intersecting ranges [div_start, div_end): an add whose range intersects
\* a live range ends in the fatal path and is not linked.
C1_NoOverlap ==
  status = "ok" => \A m \in Live, n \in Live : m # n => ~ Intersect(m, n)

\* C2: after a completed rando_map_add of [A, A+len) with original address
\* and metadata (undiv_start, undiv_vaddr, num_funcs, funcs), the lookup of
\* every address of [A, A+len) reaches a node and returns exactly those.
C2_RoundTrip ==
  (last.op = "add" /\ status = "ok") =>
    \A x \in last.lo..(last.hi - 1) :
      Lookup(x) # NULL /\ MetaOf(Lookup(x)) = last.meta

\* C3: after a completed rando_map_delete, no address of the removed
\* interval is found by a lookup.
C3_DeleteUnreachable ==
  (last.op = "delete" /\ status = "ok") =>
    \A x \in last.lo..(last.hi - 1) : Lookup(x) = NULL

\* C4: every node linked in the tree has a priority greater than or equal
\* to the priority of each child it has.
C4_HeapProperty ==
  \A n \in Live :
    /\ mem[n].left # NULL => mem[n].prio >= mem[mem[n].left].prio
    /\ mem[n].right # NULL => mem[n].prio >= mem[mem[n].right].prio

\* a delete has completed and left a node with two children, one of them of
\* the same priority as its parent
C4_Witness ==
  /\ last.op = "delete" /\ status = "ok"
  /\ \E n \in Live :
       /\ mem[n].left # NULL /\ mem[n].right # NULL
       /\ mem[n].prio = mem[mem[n].left].prio

\* C5: get_random_address returns only addresses a with
\* RAND_ADDR_LOW <= a < RAND_ADDR_HIGH, whatever raw values were drawn.
C5_InWindow ==
  sampler.pc = "done" =>
    (sampler.low <= sampler.addr /\ sampler.addr < sampler.high)

\* an address was returned after a rejected draw, from an accepted draw that
\* the reduction modulo range changed
C5_Witness ==
  /\ sampler.pc = "done" /\ sampler.rejected
  /\ sampler.raw >= Range(sampler.low, sampler.high)

\* The raw values that end the do/while loop of get_random_address.
Accepted(low, high) ==
  { r \in RawValues : ~ (r < MinAcceptable(Range(low, high))) }

Preimages(a, low, high) ==
  { r \in Accepted(low, high) : MapToWindow(r, low, high) = a }

\* C6: every address of [LOW, HIGH) is the image of the same number (at
\* least one) of accepted raw values, also when range does not divide 2^W.
C6_Uniform ==
  sampler.pc # "idle" =>
    \A a \in sampler.low..(sampler.high - 1) :
      /\ Cardinality(Preimages(a, sampler.low, sampler.high)) * Range(sampler.low, sampler.high)
           = Cardinality(Accepted(sampler.low, sampler.high))
      /\ Preimages(a, sampler.low, sampler.high) # {}

\* an address was returned for a window whose range does not divide 2^W
C6_Witness ==
  /\ sampler.pc = "done"
  /\ AddrSpace % Range(sampler.low, sampler.high) # 0
  /\ MinAcceptable(Range(sampler.low, sampler.high)) > 0

\* C7: when N adds were followed by N deletes, none of the next N adds maps
\* a page: each takes its node from the free list.
C7_FreeListReuse ==
  (run.d >= 1 /\ run.a >= run.d /\ run.k <= run.d) =>
    (run.bad = 0 /\ pages = run.pg)

\* two adds, two deletes and two more adds have completed
C7_Witness ==
  run.a >= 2 /\ run.d = 2 /\ run.k = 2 /\ status = "ok"

\* C8: rando_map_delete of an address that lies in the interval of no node
\* of the tree of an initialised registry ends in the fatal path, with the
\* tree, the free list, the allocator and every node as they were.
C8_DeleteMissingFatal ==
  [][ ( /\ last'.op = "delete"
        /\ rando_map_header # NULL
        /\ \A n \in Live :
             ~ (mem[n].div_start <= last'.arg /\ last'.arg < mem[n].div_end) )
      => ( /\ status' = "fatal_delete"
           /\ mem' = mem /\ root' = root /\ free_list' = free_list
           /\ current_page' = current_page /\ pages' = pages
           /\ version' = version /\ rando_map_header' = rando_map_header ) ]_vars

\* a delete ended in the fatal path on a registry with live and free nodes
C8_Witness ==
  /\ last.op = "delete" /\ status = "fatal_delete"
  /\ root # NULL /\ free_list # NULL

\* C9 as stated: a first add or delete without a prior rando_map_init still
\* operates on a mapped header with the version set.
C9_LazyInit ==
  last.op \in { "add", "delete" } =>
    (rando_map_header # NULL /\ version = kMapVersion /\ status # "segv")

\* C9 amended: only rando_map_init maps the header (version set, root
\* null); rando_map_add and rando_map_delete never map or change it, fault
\* when there is none, and change the set of linked nodes by the one node
\* they add or remove.
C9_ExplicitInit ==
  [][ /\ (last'.op = "init" /\ status' = "ok") =>
           (rando_map_header' # NULL /\ version' = kMapVersion /\ root' = NULL)
      /\ last'.op \in { "add", "delete" } =>
           /\ rando_map_header' = rando_map_header
           /\ version' = version
           /\ rando_map_header = NULL => status' = "segv"
           /\ (status' = "ok" /\ last'.op = "add") =>
                Reach(mem', root') = Live \cup { last'.node }
           /\ (status' = "ok" /\ last'.op = "delete") =>
                Reach(mem', root') = Live \ { last'.node } ]_vars

\* an add was made before any rando_map_init
C9_Witness ==
  last.op = "add" /\ rando_map_header = NULL /\ status = "segv"

\* The node storage the next alloc_node returns, as it reads on return.
NextAlloc == alloc_node(State)
NextAllocNode == ReadNode(State, NextAlloc.res)
CanAlloc ==
  status = "ok" /\ rando_map_header # NULL /\ NextAlloc.s.status = "ok"

\* C10 as stated: alloc_node returns storage in which every field is zero.
C10_AllZero == CanAlloc => NextAllocNode = ZeroNode

\* C10 amended: on an initialised registry alloc_node returns storage in
\* which every field but right is zero; right is zero in a node carved from
\* a page and is the next entry of the free list in a node popped from it.
C10_ZeroButRight ==
  CanAlloc =>
    /\ [ NextAllocNode EXCEPT !.right = NULL ] = ZeroNode
    /\ NextAlloc.src = "page" => NextAllocNode.right = NULL
    /\ NextAlloc.src = "free" => NextAllocNode.right = NextAlloc.s.free_list

\* an add popped its node from a free list of more than one node
C10_Witness ==
  last.op = "add" /\ last.src = "free" /\ free_list # NULL /\ status = "ok"

\* ---- C11
\* The lines of a text: the pieces between its newline characters, numbered
\* from zero.  A text without a newline is one line; a newline at the very
\* end is followed by one more, empty, line.
RECURSIVE SplitLines(_)
SplitLines(text) ==
  IF text = << >> THEN << << >> >>
  ELSE LET init == SplitLines(SubSeq(text, 1, Len(text) - 1))
           c == text[Len(text)]
       IN IF c = "nl" THEN Append(init, << >>)
          ELSE [ init EXCEPT ![Len(init)] = Append(@, c) ]

LineNumbers(text, name) ==
  { i \in 0..(Len(SplitLines(text)) - 1) : SplitLines(text)[i + 1] = name }

\* C11: get_pot_index(soname) returns kPOTIndexError when reading the
\* name-index file fails or no line of the file equals soname; otherwise it
\* returns the zero-based number of a line whose text equals soname (the
\* last such line), for every file content and every name.
C11_PotIndex ==
  pot.called =>
    IF pot.readfail \/ LineNumbers(pot.content, pot.soname) = {}
    THEN pot.result = kPOTIndexError
    ELSE /\ pot.result \in LineNumbers(pot.content, pot.soname)
         /\ \A i \in LineNumbers(pot.content, pot.soname) : i <= pot.result

\* a name found on a line after the first, in a file that was read
C11_Witness ==
  /\ pot.called
  /\ ~ pot.readfail
  /\ pot.soname # << >>
  /\ pot.result > 0
  /\ pot.result \in LineNumbers(pot.content, pot.soname)

\* ---- C12
\* in-order traversal of the subtree at n: the nodes, left to right
RECURSIVE InOrder(_)
InOrder(n) ==
  IF n = NULL THEN << >>
  ELSE InOrder(mem[n].left) \o << n >> \o InOrder(mem[n].right)

Settled == status = "ok" /\ rando_map_header # NULL

\* C12: after every completed rando_map_add and rando_map_delete the in-order
\* traversal of the tree yields strictly ascending div_start values.
C12_StrictlyAscending ==
  Settled =>
    \A i \in 1..(Len(InOrder(root)) - 1) :
      mem[InOrder(root)[i]].div_start < mem[InOrder(root)[i + 1]].div_start

\* ---- C13
\* The same traversal in a state s of the registry.
RECURSIVE InOrderIn(_, _)
InOrderIn(s, n) ==
  IF n = NULL THEN << >>
  ELSE InOrderIn(s, s.mem[n].left) \o << n >> \o InOrderIn(s, s.mem[n].right)

NodesIn(s) == { InOrderIn(s, s.root)[i] : i \in 1..Len(InOrderIn(s, s.root)) }
KidsIn(s, n) == { s.mem[n].left, s.mem[n].right } \ { NULL }

\* BST ordering: no div_start is below one that precedes it in order.
BSTIn(s) ==
  \A i \in 1..(Len(InOrderIn(s, s.root)) - 1) :
    s.mem[InOrderIn(s, s.root)[i]].div_start
      <= s.mem[InOrderIn(s, s.root)[i + 1]].div_start

HeapIn(s) ==
  \A n \in NodesIn(s) : \A c \in KidsIn(s, n) : s.mem[c].prio <= s.mem[n].prio

\* The heap property with node x left out: the sons of x count as sons of
\* the parent of x.
KidsBut(s, n, x) ==
  (KidsIn(s, n) \ { x }) \cup (IF x \in KidsIn(s, n) THEN KidsIn(s, x) ELSE {})
HeapBut(s, x) ==
  \A n \in NodesIn(s) \ { x } :
    \A c \in KidsBut(s, n, x) : s.mem[c].prio <= s.mem[n].prio

\* C13 as stated: during rando_map_delete, after each single rotation the
\* tree satisfies the BST ordering on div_start and the max-heap property on
\* prio at every node.
C13_BothAtEveryNode ==
  [][ (last'.op = "delete" /\ rando_map_header # NULL) =>
        \A i \in 1..Len(DeleteSteps(State, last'.arg, RootPtr)) :
          /\ BSTIn(DeleteSteps(State, last'.arg, RootPtr)[i].s)
          /\ HeapIn(DeleteSteps(State, last'.arg, RootPtr)[i].s) ]_vars

\* C13 amended: after each single rotation the tree satisfies the BST
\* ordering, and the max-heap property among all nodes but the one being
\* removed, whose prio is 0 and whose sons hang below it; the rotations end
\* when that node has at most one son.
C13_HeapButRemoved ==
  [][ (last'.op = "delete" /\ rando_map_header # NULL) =>
        LET steps == DeleteSteps(State, last'.arg, RootPtr) IN
        /\ \A i \in 1..Len(steps) :
             /\ BSTIn(steps[i].s)
             /\ HeapBut(steps[i].s, steps[i].node)
             /\ steps[i].s.mem[steps[i].node].prio = 0
             /\ steps[i].node \in NodesIn(steps[i].s)
        /\ \A i \in 1..(Len(steps) - 1) :
             Cardinality(KidsIn(steps[i].s, steps[i].node)) = 2
        /\ Len(steps) > 0 =>
             Cardinality(KidsIn(steps[Len(steps)].s, steps[Len(steps)].node)) < 2
      ]_vars

\* a delete that took two rotations to bring its node down
C13_Witness == last.op = "delete" /\ last.rot >= 2 /\ status = "ok"

\* ---- C14
\* C14: each rando_map_add consumes exactly one node slot: with its node
\* popped from the free list, current_page.next and current_page.limit are
\* after the call what they were before; with its node carved from the
\* current page, current_page.next ends one node past the carved slot.
C14_OneSlot ==
  [][ (last'.op = "add" /\ rando_map_header # NULL /\ status' = "ok") =>
        IF last'.src = "free"
        THEN current_page' = current_page
        ELSE /\ current_page'.next = last'.node + NodeWords
             /\ ~ last'.mapped => current_page'.next = current_page.next + NodeWords
      ]_vars

\* ---- C15
\* C15: for every range in 1..2^W-1 the value min of get_random_address, the
\* W-bit wraparound negation of range taken modulo range, is 2^W mod range.
C15_MinIsPowerModRange ==
  sampler.pc # "idle" =>
    /\ Range(sampler.low, sampler.high) \in 1..(AddrSpace - 1)
    /\ MinAcceptable(Range(sampler.low, sampler.high))
         = AddrSpace % Range(sampler.low, sampler.high)

\* a draw below a min that is not zero, about to be rejected
C15_Witness ==
  /\ sampler.pc = "test"
  /\ AddrSpace % Range(sampler.low, sampler.high) > 1
  /\ sampler.raw < MinAcceptable(Range(sampler.low, sampler.high))

\* ---- C16
Inside(x, n) == mem[n].div_start <= x /\ x < mem[n].div_end
PairwiseDisjoint == \A m \in Live, n \in Live : m # n => ~ Intersect(m, n)

\* C16: when the live intervals are pairwise disjoint, a rando_map_add whose
\* div_start lies inside a live node's interval ends in the fatal path
\* 'overlapping rando map nodes' (unless mmap failed before the descent).
C16_InsideIsFatal ==
  [][ ( /\ last'.op = "add"
        /\ rando_map_header # NULL
        /\ PairwiseDisjoint
        /\ \E n \in Live : Inside(last'.arg, n) )
      => status' \in { "fatal_overlap", "fatal_mmap" } ]_vars

\* ---- C17
\* C17: every live node can be unregistered by its own key: for a node whose
\* div_start is d, rando_map_delete(d) does not reach the fatal path and
\* removes exactly that node from the tree.
C17_DeleteByOwnKey ==
  [][ ( /\ last'.op = "delete"
        /\ rando_map_header # NULL
        /\ \E n \in Live : mem[n].div_start = last'.arg )
      => ( /\ status' = "ok"
           /\ \E n \in Live :
                /\ mem[n].div_start = last'.arg
                /\ Reach(mem', root') = Live \ { n } ) ]_vars

\* ---- C18
\* The node slots alloc_node carved from a page.
Slots == { c.slot : c \in hist.carved }

\* The free list from n, through right, for at most fuel entries.
RECURSIVE FreeFrom(_, _)
FreeFrom(n, fuel) ==
  IF n = NULL \/ fuel = 0 THEN << >>
  ELSE << n >> \o FreeFrom(mem[n].right, fuel - 1)

FreeList == FreeFrom(free_list, Cardinality(Slots) + 1)
Count(seq, x) == Cardinality({ i \in 1..Len(seq) : seq[i] = x })

\* slot x is linked in the tree by one path and not on the free list, or is
\* once on the free list and not in the tree
InOnePlace(x) ==
  \/ Count(InOrder(root), x) = 1 /\ Count(FreeList, x) = 0
  \/ Count(InOrder(root), x) = 0 /\ Count(FreeList, x) = 1

\* C18 as stated: between operations every node slot ever handed out is
\* either linked in the tree, reachable from root by exactly one path, or
\* once on the free list, which is acyclic through right, and never both;
\* alloc_node never returns a slot that is linked in the tree.
C18_OnePlace ==
  Settled =>
    /\ \A x \in Slots : InOnePlace(x)
    /\ Len(FreeList) <= Cardinality(Slots)
    /\ CanAlloc => NextAlloc.res \notin Live

\* C18 amended: the same while rando_map_init has been called once; a
\* further rando_map_init leaves the slots of the old tree in neither place.
\* In every case the tree and the free list hold handed-out slots only, no
\* slot is in both or twice in one, and alloc_node never returns a slot
\* that is linked in the tree.
C18_OnePlaceWhileInitOnce ==
  Settled =>
    /\ Cardinality(hist.headers) = 1 => \A x \in Slots : InOnePlace(x)
    /\ \A x \in Slots : Count(InOrder(root), x) + Count(FreeList, x) <= 1
    /\ Live \subseteq Slots
    /\ \A i \in 1..Len(FreeList) : FreeList[i] \in Slots
    /\ Len(FreeList) <= Cardinality(Slots)
    /\ CanAlloc => NextAlloc.res \notin Live

\* after one rando_map_init: a slot popped from the free list is linked in
\* the tree while another is still on the free list
C18_Witness ==
  /\ Settled
  /\ Cardinality(hist.headers) = 1
  /\ last.op = "add" /\ last.src = "free"
  /\ last.node \in Live
  /\ Len(FreeList) >= 1

\* ---- C19
\* The fields of a node other than its links.
Payload(r) == [ r EXCEPT !.left = NULL, !.right = NULL ]

\* C19: a completed rando_map_add or rando_map_delete changes nothing but
\* the left/right links of the nodes other than the one inserted or deleted:
\* every other live node keeps div_start, div_end, undiv_start, undiv_vaddr,
\* num_funcs, funcs and prio, and the set of live nodes changes by exactly
\* the one node inserted or removed.
C19_OthersKeepPayload ==
  [][ ( /\ last'.op \in { "add", "delete" }
        /\ rando_map_header # NULL
        /\ status' = "ok" )
      => ( /\ \A n \in Live \ { last'.node } :
                Payload(mem'[n]) = Payload(mem[n])
           /\ last'.op = "add" =>
                /\ last'.node \notin Live
                /\ Reach(mem', root') = Live \cup { last'.node }
           /\ last'.op = "delete" =>
                /\ last'.node \in Live
                /\ Reach(mem', root') = Live \ { last'.node } ) ]_vars

\* a delete that rotated its node down past other nodes
C19_Witness ==
  /\ last.op = "delete" /\ status = "ok"
  /\ last.rot >= 1
  /\ Cardinality(Live) >= 3
  /\ \E n \in Live : mem[n].prio > 0

\* ---- C20
\* [a, a + m) and [b, b + n) have no word in common
Apart(a, m, b, n) == a + m <= b \/ b + n <= a

\* C20: every node slot carved by the bump allocator lies entirely inside
\* the page mapped by the most recent alloc_map_page, overlaps neither a
\* registry header at the start of a page nor any other slot handed out.
C20_SlotsInPage ==
  /\ \A c \in hist.carved :
       /\ c.page <= c.slot
       /\ c.slot + NodeWords <= c.page + PageWords
       /\ \A h \in hist.headers : Apart(c.slot, NodeWords, h, HeaderWords)
  /\ \A c \in hist.carved, d \in hist.carved :
       c.slot # d.slot => Apart(c.slot, NodeWords, d.slot, NodeWords)
  /\ \A c \in hist.carved, d \in hist.carved : c.slot = d.slot => c = d
  /\ (last.op = "add" /\ last.src = "free") => last.node \in Slots

\* slots carved from the page of the header and from a later page
C20_Witness ==
  /\ \E c \in hist.carved : c.page \in hist.headers
  /\ \E c \in hist.carved : c.page \notin hist.headers
  /\ Cardinality(hist.carved) >= 3
====
